---- MODULE Spec2Model ----
(***************************************************************************)
(* Model of PyBayesAB/conjugated_priors/bernoulli.py: class BaysBernoulli. *)
(*                                                                         *)
(* The state is one BaysBernoulli object: its attributes prior, dataA,     *)
(* dataB and data, together with the last call made on it (name and        *)
(* arguments), the exception that call raised and the value it returned.   *)
(*                                                                         *)
(* Numbers.  The ledgers hold Python numbers: the integer counts and the   *)
(* prior pseudo-counts, of which 1/3 and 10**-3 are binary64 floats.       *)
(* np.sum and np.cumsum on a dtype=object array add them one after the     *)
(* other with Python's +, so every float addition rounds to 53 significant *)
(* bits.  A number is modelled exactly as a sign and a magnitude in fixed  *)
(* point with 62 fraction bits, the fraction held in two 31-bit limbs:     *)
(*     value = s * (i + hi / 2^31 + lo / 2^62).                            *)
(* Every binary64 value the model reaches is a multiple of 2^-62 (the unit *)
(* in the last place of 10**-3), so the representation loses nothing, and  *)
(* PyAdd rounds exactly where binary64 addition rounds.                    *)
(***************************************************************************)
EXTENDS Integers, Sequences, FiniteSets, TLC

VARIABLES pc, prior, dataA, dataB, data, call, raised, ret

vars == <<pc, prior, dataA, dataB, data, call, raised, ret>>

(***************************************************************************)
(* Bounds of the model.                                                    *)
(***************************************************************************)
\* batches appended to the two ledgers together, after the seeds, by the calls
\* that append one batch
MaxBatches == 2

\* rows of a table handed to add_data, and batches appended to the two ledgers
\* together once add_data has appended
MaxRows == MaxBatches + 1

(***************************************************************************)
(* binary64 arithmetic on the fixed-point representation.                  *)
(***************************************************************************)
\* largest limb, 2^31 - 1
LimbMax == 2^30 + (2^30 - 1)

Num(s, i, hi, lo) == [s |-> s, i |-> i, hi |-> hi, lo |-> lo]

\* a Python int
PyInt(n) == IF n < 0 THEN Num(-1, -n, 0, 0) ELSE Num(1, n, 0, 0)

Zero == PyInt(0)

IsZero(x) == x.i = 0 /\ x.hi = 0 /\ x.lo = 0

Neg(x) == IF IsZero(x) THEN x ELSE [x EXCEPT !.s = -x.s]

MagLess(x, y) ==
    \/ x.i < y.i
    \/ x.i = y.i /\ x.hi < y.hi
    \/ x.i = y.i /\ x.hi = y.hi /\ x.lo < y.lo

\* x < y, x > 0, as Python compares two numbers
Less(x, y) ==
    IF x.s = 1 /\ y.s = 1 THEN MagLess(x, y)
    ELSE IF x.s = -1 /\ y.s = -1 THEN MagLess(y, x)
    ELSE x.s = -1

Positive(x) == Less(Zero, x)

\* a + b + c of limbs a, b and carry c, as <<limb, carry out>>
LimbAdd(a, b, c) ==
    IF a > LimbMax - b THEN <<(a - (LimbMax - b) - 1) + c, 1>>
    ELSE IF a + b = LimbMax /\ c = 1 THEN <<0, 1>>
    ELSE <<a + b + c, 0>>

\* a - b - c of limbs a, b and borrow c, as <<limb, borrow out>>
LimbSub(a, b, c) ==
    IF b = LimbMax /\ c = 1 THEN <<a, 1>>
    ELSE IF a >= b + c THEN <<a - b - c, 0>>
    ELSE <<(LimbMax - (b + c - a)) + 1, 1>>

MagAdd(x, y) ==
    LET l == LimbAdd(x.lo, y.lo, 0)
        h == LimbAdd(x.hi, y.hi, l[2])
    IN  [i |-> x.i + y.i + h[2], hi |-> h[1], lo |-> l[1]]

\* x - y for magnitudes with y <= x
MagSub(x, y) ==
    LET l == LimbSub(x.lo, y.lo, 0)
        h == LimbSub(x.hi, y.hi, l[2])
    IN  [i |-> x.i - y.i - h[2], hi |-> h[1], lo |-> l[1]]

\* the exact sum of two numbers
FixAdd(x, y) ==
    IF x.s = y.s
    THEN LET m == MagAdd(x, y) IN Num(x.s, m.i, m.hi, m.lo)
    ELSE IF MagLess(x, y)
    THEN LET m == MagSub(y, x) IN Num(y.s, m.i, m.hi, m.lo)
    ELSE IF MagLess(y, x)
    THEN LET m == MagSub(x, y) IN Num(x.s, m.i, m.hi, m.lo)
    ELSE Zero

\* floor(log2(n)) for 1 <= n < 2^31
ILog2(n) ==
    LET a  == IF n >= 65536 THEN 16 ELSE 0
        n1 == n \div 2^a
        b  == IF n1 >= 256 THEN 8 ELSE 0
        n2 == n1 \div 2^b
        c  == IF n2 >= 16 THEN 4 ELSE 0
        n3 == n2 \div 2^c
        d  == IF n3 >= 4 THEN 2 ELSE 0
        e  == IF n3 \div 2^d >= 2 THEN 1 ELSE 0
    IN  a + b + c + d + e

\* number of fraction bits a binary64 of this magnitude keeps (53 significant
\* bits in all); 62 and more means that nothing is dropped
KeptBits(x) ==
    IF x.i >= 1 THEN 52 - ILog2(x.i)
    ELSE IF x.hi >= 2^30 THEN 53
    ELSE IF x.hi >= 1 THEN 52 + (31 - ILog2(x.hi))
    ELSE 62

\* round to nearest, ties to even, at 53 significant bits; the bits dropped are
\* bits of the low limb as long as the magnitude is below 2^21
Round53(x) ==
    IF x.lo = 0 THEN x ELSE
    LET d == 62 - KeptBits(x) IN
    IF d <= 0 THEN x
    ELSE
    LET q    == 2^d
        r    == x.lo % q
        base == x.lo - r
        up   == r > q \div 2 \/ (r = q \div 2 /\ (base \div q) % 2 = 1)
    IN  IF ~up THEN [x EXCEPT !.lo = base]
        ELSE IF base <= LimbMax - q THEN [x EXCEPT !.lo = base + q]
        ELSE IF x.hi < LimbMax THEN [x EXCEPT !.lo = 0, !.hi = x.hi + 1]
        ELSE [x EXCEPT !.lo = 0, !.hi = 0, !.i = x.i + 1]

\* Python's x + y on ints and floats
PyAdd(x, y) == Round53(FixAdd(x, y))


(***************************************************************************)
(* Python values.                                                          *)
(***************************************************************************)
None == <<>>

\* a value that is not None, told apart from None by its length
Some(x) == <<x>>

\* 1/2 = 0x1.0p-1
Half == Num(1, 0, 2^30, 0)

\* 1/3 = 0x1.5555555555555p-2
Third == Num(1, 0, 715827882, 1431655680)

\* 10**-3 = 0x1.0624dd2f1a9fcp-10
Milli == Num(1, 0, 2147483, 1391569404)

(***************************************************************************)
(* The arguments the calls are made with.                                  *)
(***************************************************************************)
PriorTypes == {"Bayes-Laplace", "Jeffreys", "Neutral", "Haldane", "Flat"}

Groups == {"A", "B"}

\* <<hits, fails>> handed to add_experiment
Experiments == {<<8, 2>>, <<2, 2>>, <<-1, 5>>, <<2, -1>>}

\* p and n handed to add_rand_experiment
Probs == {"0.5", "1.5"}

Trials == {-1, 1}

\* the tables handed to add_data: a group column and two count columns, the
\* k-th row holding k hits, so that the rows of a table differ
Row(k, g) == [group |-> g, hits |-> k, fails |-> 2]

Tables ==
    UNION {{[k \in 1..n |-> Row(k, tags[k])] : tags \in [1..n -> Groups]} :
           n \in 0..MaxRows}

\* explicit data handed to the posterior functions instead of a ledger
Overrides == {None, Some(<< <<Third, PyInt(2)>> >>)}

AnalysisMethods == {"prob_best", "hdi", "rope", "bayes_factor"}

(***************************************************************************)
(* __init__                                                                *)
(***************************************************************************)
Recognised(prior_type) ==
    prior_type \in {"Bayes-Laplace", "Jeffreys", "Neutral", "Haldane"}

\* the Haldane prior taken at its word, alpha = beta = 0
PriorOf_HaldaneZero(prior_type) ==
    CASE prior_type = "Bayes-Laplace" -> <<PyInt(1), PyInt(1)>>
      [] prior_type = "Jeffreys"      -> <<Half, Half>>
      [] prior_type = "Neutral"       -> <<Third, Third>>
      [] prior_type = "Haldane"       -> <<Zero, Zero>>

PriorOf(prior_type) ==
    CASE prior_type = "Bayes-Laplace" -> <<PyInt(1), PyInt(1)>>
      [] prior_type = "Jeffreys"      -> <<Half, Half>>
      [] prior_type = "Neutral"       -> <<Third, Third>>
      [] prior_type = "Haldane"       -> <<Milli, Milli>>

\* before the constructor has run the object has no attributes
Init ==
    /\ pc = "new"
    /\ prior = None
    /\ dataA = <<>>
    /\ dataB = <<>>
    /\ data = None
    /\ call = [op |-> "none", args |-> <<>>]
    /\ raised = "none"
    /\ ret = None

BaysBernoulli(prior_type) ==
    /\ pc = "new"
    /\ call' = [op |-> "__init__", args |-> [prior_type |-> prior_type]]
    /\ ret' = None
    /\ IF Recognised(prior_type)
       THEN /\ prior' = PriorOf(prior_type)
            /\ dataA' = <<PriorOf(prior_type)>>
            /\ dataB' = <<PriorOf(prior_type)>>
            /\ data' = None
            /\ raised' = "none"
            /\ pc' = "ready"
       ELSE /\ raised' = "SyntaxError"
            /\ pc' = "failed"
            /\ UNCHANGED <<prior, dataA, dataB, data>>

(***************************************************************************)
(* Adding data.                                                            *)
(***************************************************************************)
\* batches the two ledgers hold besides their seeds
Appended == (Len(dataA) - 1) + (Len(dataB) - 1)

\* df[df[group_col_name] == g].drop(columns=group_col_name).values.tolist()
RowsOf(df, g) ==
    LET Pick[k \in 0..Len(df)] ==
            IF k = 0 THEN <<>>
            ELSE IF df[k].group = g
                 THEN Append(Pick[k-1], <<PyInt(df[k].hits), PyInt(df[k].fails)>>)
                 ELSE Pick[k-1]
    IN  Pick[Len(df)]

\* df[group_col_name].unique()
Unique(df) == {df[k].group : k \in 1..Len(df)}

\* any(...) for all(...): one group is enough
add_data_any(df) ==
    /\ pc = "ready"
    /\ call' = [op |-> "add_data", args |-> [df |-> df]]
    /\ ret' = None
    /\ IF ~(\E x \in {"A", "B"} : x \in Unique(df))
       THEN /\ raised' = "ValueError"
            /\ UNCHANGED <<pc, prior, dataA, dataB, data>>
       ELSE /\ Appended + Len(df) <= MaxRows
            /\ data' = Some(df)
            /\ dataA' = dataA \o RowsOf(df, "A")
            /\ dataB' = dataB \o RowsOf(df, "B")
            /\ raised' = "none"
            /\ UNCHANGED <<pc, prior>>

\* the ledgers assigned the rows, not extended by them
add_data_assign(df) ==
    /\ pc = "ready"
    /\ call' = [op |-> "add_data", args |-> [df |-> df]]
    /\ ret' = None
    /\ IF ~(\A x \in {"A", "B"} : x \in Unique(df))
       THEN /\ raised' = "ValueError"
            /\ UNCHANGED <<pc, prior, dataA, dataB, data>>
       ELSE /\ Appended + Len(df) <= MaxRows
            /\ data' = Some(df)
            /\ dataA' = RowsOf(df, "A")
            /\ dataB' = RowsOf(df, "B")
            /\ raised' = "none"
            /\ UNCHANGED <<pc, prior>>

add_data(df) ==
    /\ pc = "ready"
    /\ call' = [op |-> "add_data", args |-> [df |-> df]]
    /\ ret' = None
    /\ IF ~(\A x \in {"A", "B"} : x \in Unique(df))
       THEN /\ raised' = "ValueError"
            /\ UNCHANGED <<pc, prior, dataA, dataB, data>>
       ELSE /\ Appended + Len(df) <= MaxRows
            /\ data' = Some(df)
            /\ dataA' = dataA \o RowsOf(df, "A")
            /\ dataB' = dataB \o RowsOf(df, "B")
            /\ raised' = "none"
            /\ UNCHANGED <<pc, prior>>

\* self.data.append([hits, fails]): None has no append; a DataFrame either has
\* none (pandas 2) or returns a new frame and leaves self.data as it is (pandas 1)
DataAppendOutcomes == IF data = None THEN {"AttributeError"} ELSE {"AttributeError", "none"}

\* the last batch of ledger B overwritten, not followed
add_experiment_overwrite(hits, fails, group) ==
    /\ pc = "ready"
    /\ call' = [op |-> "add_experiment",
                args |-> [hits |-> hits, fails |-> fails, group |-> group]]
    /\ ret' = None
    /\ IF group = "A"
       THEN /\ raised' \in DataAppendOutcomes
            /\ UNCHANGED <<pc, prior, dataA, dataB, data>>
       ELSE /\ group = "B"
            /\ Appended + 1 <= MaxBatches
            /\ dataB' = [dataB EXCEPT ![Len(dataB)] = <<PyInt(hits), PyInt(fails)>>]
            /\ raised' = "none"
            /\ UNCHANGED <<pc, prior, dataA, data>>

add_experiment(hits, fails, group) ==
    /\ pc = "ready"
    /\ call' = [op |-> "add_experiment",
                args |-> [hits |-> hits, fails |-> fails, group |-> group]]
    /\ ret' = None
    /\ IF group = "A"
       THEN /\ raised' \in DataAppendOutcomes
            /\ UNCHANGED <<pc, prior, dataA, dataB, data>>
       ELSE /\ group = "B"
            /\ Appended + 1 <= MaxBatches
            /\ dataB' = Append(dataB, <<PyInt(hits), PyInt(fails)>>)
            /\ raised' = "none"
            /\ UNCHANGED <<pc, prior, dataA, data>>

\* bernoulli.rvs(p, size=n) raises on p outside [0, 1] and on size < 0
RvsRaises(n, p) == p = "1.5" \/ n < 0

\* np.count_nonzero(bernoulli.rvs(p, size=n)) for 0 < p < 1: the draws are any
\* n values of {0, 1}
HitCounts(n, p) == 0..n

\* the batch appended to ledger A whatever the group
add_rand_experiment_toA(n, p, group) ==
    /\ pc = "ready"
    /\ call' = [op |-> "add_rand_experiment", args |-> [n |-> n, p |-> p, group |-> group]]
    /\ ret' = None
    /\ IF RvsRaises(n, p)
       THEN /\ raised' = "ValueError"
            /\ UNCHANGED <<pc, prior, dataA, dataB, data>>
       ELSE /\ Appended + 1 <= MaxBatches
            /\ raised' = "none"
            /\ \E hits \in HitCounts(n, p) :
                 /\ dataA' = Append(dataA, <<PyInt(hits), PyInt(n - hits)>>)
                 /\ UNCHANGED <<pc, prior, dataB, data>>

add_rand_experiment(n, p, group) ==
    /\ pc = "ready"
    /\ call' = [op |-> "add_rand_experiment", args |-> [n |-> n, p |-> p, group |-> group]]
    /\ ret' = None
    /\ IF RvsRaises(n, p)
       THEN /\ raised' = "ValueError"
            /\ UNCHANGED <<pc, prior, dataA, dataB, data>>
       ELSE /\ Appended + 1 <= MaxBatches
            /\ raised' = "none"
            /\ \E hits \in HitCounts(n, p) :
                 IF group = "A"
                 THEN /\ dataA' = Append(dataA, <<PyInt(hits), PyInt(n - hits)>>)
                      /\ UNCHANGED <<pc, prior, dataB, data>>
                 ELSE /\ group = "B"
                      /\ dataB' = Append(dataB, <<PyInt(hits), PyInt(n - hits)>>)
                      /\ UNCHANGED <<pc, prior, dataA, data>>


(***************************************************************************)
(* Building the posterior.                                                 *)
(***************************************************************************)
\* data[:, j] of np.array(data, dtype="object")
Column(d, j) == [k \in 1..Len(d) |-> d[k][j]]

\* the sum of data[1:, j]: the seed left out
RECURSIVE NpSum_noseed(_)
NpSum_noseed(col) ==
    IF Len(col) = 1 THEN Zero
    ELSE PyAdd(NpSum_noseed(SubSeq(col, 1, Len(col) - 1)), col[Len(col)])

\* np.sum of a column of objects: the elements are added from the first on
RECURSIVE NpSum(_)
NpSum(col) ==
    IF Len(col) = 1 THEN col[1]
    ELSE PyAdd(NpSum(SubSeq(col, 1, Len(col) - 1)), col[Len(col)])

\* the sums of the batches before each entry, the entry itself left out
RECURSIVE NpCumsum_before(_)
NpCumsum_before(col) ==
    IF Len(col) = 1 THEN <<Zero>>
    ELSE LET c == NpCumsum_before(SubSeq(col, 1, Len(col) - 1))
         IN  Append(c, PyAdd(c[Len(c)], col[Len(col) - 1]))

\* np.cumsum of a column of objects: each entry is the one before it plus the
\* next element
RECURSIVE NpCumsum(_)
NpCumsum(col) ==
    IF Len(col) = 1 THEN <<col[1]>>
    ELSE LET c == NpCumsum(SubSeq(col, 1, Len(col) - 1))
         IN  Append(c, PyAdd(c[Len(c)], col[Len(col)]))

\* the ledger of a group
Ledger(group) == IF group = "A" THEN dataA ELSE dataB

\* data=None stands for the group's ledger
DataOr(d, group) == IF d = None THEN Ledger(group) ELSE d[1]

post_parameters(d, group) ==
    LET arr == DataOr(d, group)
    IN  <<NpSum(Column(arr, 1)), NpSum(Column(arr, 2))>>

\* a / (a + b), kept as the pair of the dividend and the divisor
post_pred(d, group) ==
    LET ab == post_parameters(d, group)
    IN  [num |-> ab[1], den |-> PyAdd(ab[1], ab[2])]

\* beta.rvs(a, b, size=N_sample) raises unless a > 0 and b > 0; the sample is
\* named by the distribution it is drawn from
BetaRaises(ab) == ~(Positive(ab[1]) /\ Positive(ab[2]))

make_rvs(d, group) ==
    LET ab == post_parameters(d, group) IN [rvs |-> "beta", a |-> ab[1], b |-> ab[2]]

make_pdf(d, group) ==
    LET ab == post_parameters(d, group) IN [pdf |-> "beta", a |-> ab[1], b |-> ab[2]]

make_cum_post_para(group) ==
    <<NpCumsum(Column(Ledger(group), 1)), NpCumsum(Column(Ledger(group), 2))>>

make_diff == <<make_rvs(None, "A"), make_rvs(None, "B")>>

\* the calls that read the object: they set nothing but the result
Read(op, args, exc, value) ==
    /\ pc = "ready"
    /\ call' = [op |-> op, args |-> args]
    /\ raised' = exc
    /\ ret' = IF exc = "none" THEN Some(value) ELSE None
    /\ UNCHANGED <<pc, prior, dataA, dataB, data>>

PostParameters(d, group) ==
    Read("post_parameters", [data |-> d, group |-> group], "none",
         post_parameters(d, group))

PostPred(d, group) ==
    LET q == post_pred(d, group)
    IN  Read("post_pred", [data |-> d, group |-> group],
             IF IsZero(q.den) THEN "ZeroDivisionError" ELSE "none", q)

MakeRvs(d, group) ==
    LET r == make_rvs(d, group)
    IN  Read("make_rvs", [data |-> d, group |-> group],
             IF BetaRaises(<<r.a, r.b>>) THEN "ValueError" ELSE "none", r)

MakePdf(d, group) ==
    Read("make_pdf", [data |-> d, group |-> group], "none", make_pdf(d, group))

MakeCumPostPara(group) ==
    Read("make_cum_post_para", [group |-> group], "none", make_cum_post_para(group))

DiffRaises(diff) ==
    BetaRaises(<<diff[1].a, diff[1].b>>) \/ BetaRaises(<<diff[2].a, diff[2].b>>)

MakeDiff ==
    LET diff == make_diff
    IN  Read("make_diff", <<>>, IF DiffRaises(diff) THEN "ValueError" ELSE "none", diff)

\* prob_best, hdi, rope, bayes_factor: a statistic of make_diff()
Analysis ==
    LET diff == make_diff
        exc  == IF DiffRaises(diff) THEN "ValueError" ELSE "none"
    IN  \E method \in AnalysisMethods : Read(method, <<>>, exc, [of |-> diff])

(***************************************************************************)
(* The object's life: it is constructed, then called any number of times.  *)
(***************************************************************************)
Next ==
    \/ \E prior_type \in PriorTypes : BaysBernoulli(prior_type)
    \/ \E df \in Tables : add_data(df)
    \/ \E e \in Experiments, group \in Groups : add_experiment(e[1], e[2], group)
    \/ \E n \in Trials, p \in Probs, group \in Groups : add_rand_experiment(n, p, group)
    \/ \E d \in Overrides, group \in Groups : PostParameters(d, group)
    \/ \E group \in Groups : PostPred(None, group)
    \/ \E group \in Groups : MakeRvs(None, group)
    \/ \E group \in Groups : MakePdf(None, group)
    \/ \E group \in Groups : MakeCumPostPara(group)
    \/ MakeDiff
    \/ Analysis

Spec == Init /\ [][Next]_vars


(***************************************************************************)
(* What the claims speak of.                                               *)
(***************************************************************************)
Other(group) == IF group = "A" THEN "B" ELSE "A"

IsPrefix(s, t) == Len(s) <= Len(t) /\ SubSeq(t, 1, Len(s)) = s

Batch(hits, fails) == <<PyInt(hits), PyInt(fails)>>

\* x + n for a number x and an integer n, as Python adds them
Plus(x, n) == PyAdd(x, PyInt(n))

\* C1: for either group g and non-negative integers hits and fails,
\* add_experiment(hits, fails, group=g) raises nothing and appends exactly the
\* batch [hits, fails] at the end of g's ledger, so that post_parameters(group=g)
\* is afterwards its value before plus (hits, fails); a fresh Bayes-Laplace
\* object followed by add_experiment(8, 2) on group A has post_parameters (9, 3).
C1_AddExperimentAppends ==
    [][/\ \A g \in Groups, e \in Experiments :
            (/\ call'.op = "add_experiment"
             /\ call'.args = [hits |-> e[1], fails |-> e[2], group |-> g]
             /\ e[1] >= 0
             /\ e[2] >= 0)
            => /\ raised' = "none"
               /\ Ledger(g)' = Append(Ledger(g), Batch(e[1], e[2]))
               /\ post_parameters(None, g)' =
                    <<Plus(post_parameters(None, g)[1], e[1]),
                      Plus(post_parameters(None, g)[2], e[2])>>
       /\ (/\ call.op = "__init__"
           /\ call.args.prior_type = "Bayes-Laplace"
           /\ call'.op = "add_experiment"
           /\ call'.args = [hits |-> 8, fails |-> 2, group |-> "A"])
          => post_parameters(None, "A")' = <<PyInt(9), PyInt(3)>>
      ]_vars

\* C4: add_experiment(hits, fails, group) with hits < 0 or fails < 0 raises at
\* that call (a validation error; any exception is taken for one here) and
\* leaves both ledgers as they were, so that no batch with a negative count is
\* ever appended.
C4_NegativeCountsRejected ==
    [][(/\ call'.op = "add_experiment"
        /\ (call'.args.hits < 0 \/ call'.args.fails < 0))
       => (/\ raised' # "none"
           /\ dataA' = dataA
           /\ dataB' = dataB)
      ]_vars

\* C9: on an object constructed with one of the four preset priors,
\* post_parameters(group=g) has alpha > 0 and beta > 0 in every state reachable
\* by add_data, add_experiment and add_rand_experiment, so that post_pred =
\* alpha / (alpha + beta) is defined and lies strictly between 0 and 1.
C9_PosteriorPositive ==
    pc = "ready" =>
        \A g \in Groups :
            LET ab == post_parameters(None, g)
                q  == post_pred(None, g)
            IN  /\ Positive(ab[1])
                /\ Positive(ab[2])
                /\ Positive(q.den)
                /\ Positive(q.num)
                /\ Less(q.num, q.den)


\* the exact sum of a column, and the exact sum of its magnitudes
RECURSIVE ExactSum(_)
ExactSum(col) == IF col = <<>> THEN Zero ELSE FixAdd(Head(col), ExactSum(Tail(col)))

Abs(x) == [x EXCEPT !.s = 1]

AbsSum(col) == ExactSum([k \in 1..Len(col) |-> Abs(col[k])])

\* (n - 1) * 2^-51 * S in units of 2^-62, rounded down: the floating-point
\* tolerance of a sum of n numbers whose magnitudes add up to S
Tolerance(n, S) == (n - 1) * (S.i * 2^11 + S.hi \div 2^20)

\* |x - y| <= tol * 2^-62
Within(x, y, tol) ==
    LET d == FixAdd(x, Neg(y)) IN d.i = 0 /\ d.hi = 0 /\ d.lo <= tol

\* the ledgers that hold the batches of ledger L appended in another order
Reorderings(L) ==
    LET n == Len(L)
        P == {f \in [2..n -> 2..n] : \A j, k \in 2..n : f[j] = f[k] => j = k}
    IN  {[k \in 1..n |-> IF k = 1 THEN L[1] ELSE L[f[k]]] : f \in P}

\* sums of integers and of halves are exact
ExactPrior == prior \in {<<PyInt(1), PyInt(1)>>, <<Half, Half>>}

\* the batches appended to ledger L hold no negative count
Counted(L) == \A k \in 2..Len(L) : L[k][1].s = 1 /\ L[k][2].s = 1

\* the result of post_parameters(group=g), called without data, is at hand
Returned(g) ==
    /\ pc = "ready"
    /\ call.op = "post_parameters"
    /\ call.args = [data |-> None, group |-> g]

\* C2 as stated: post_parameters(group=g) without data returns the sum of the
\* hits and of the fails of every batch now in g's ledger, the seed included, the
\* same whatever the order the batches were appended in; on a ledger that holds
\* only the seed it returns the prior.  (Stated of the ledgers without negative
\* counts.)
C2_SameForEveryOrder ==
    \A g \in Groups :
        (Returned(g) /\ Counted(Ledger(g))) =>
            /\ raised = "none"
            /\ \A P \in Reorderings(Ledger(g)) : ret = Some(post_parameters(Some(P), g))
            /\ Len(Ledger(g)) = 1 => ret = Some(prior)

\* C2 as amended: post_parameters(group=g) without data returns the sum of the
\* hits and of the fails of every batch now in g's ledger, the seed included,
\* added in ledger order in floating point; it is the exact sum, and the same for
\* every order of the batches, within floating-point tolerance ((n - 1) * 2^-51
\* times the sum of the magnitudes of the n entries), and without any error when
\* the prior is Bayes-Laplace or Jeffreys; on a ledger that holds only the seed
\* it returns the prior.
C2_SameWithinTolerance ==
    \A g \in Groups :
        Returned(g) =>
            LET L   == Ledger(g)
                now == ret[1]
                tol(j) == IF ExactPrior THEN 0
                          ELSE Tolerance(Len(L), AbsSum(Column(L, j)))
            IN  /\ raised = "none"
                /\ Len(ret) = 1
                /\ \A j \in 1..2 : Within(now[j], ExactSum(Column(L, j)), tol(j))
                /\ \A P \in Reorderings(L), j \in 1..2 :
                       Within(post_parameters(Some(P), g)[j], now[j], tol(j))
                /\ Len(L) = 1 => now = prior

\* a ledger whose sum depends on the order of its batches has been summed
C2_Witness ==
    /\ Returned("B")
    /\ Counted(dataB)
    /\ \E P \in Reorderings(dataB) : ret # Some(post_parameters(Some(P), "B"))

\* C3: make_cum_post_para(group=g) returns two sequences as long as g's ledger,
\* the seed included; their entries at i are post_parameters of the first i
\* batches of the ledger (counted from 1), and their last entries are
\* post_parameters(group=g) of the whole ledger.
C3_CumulativeParameters ==
    \A g \in Groups :
        (/\ call.op = "make_cum_post_para"
         /\ call.args.group = g)
        => LET L   == Ledger(g)
               cum == ret[1]
           IN  /\ raised = "none"
               /\ Len(cum[1]) = Len(L)
               /\ Len(cum[2]) = Len(L)
               /\ \A i \in 1..Len(L) :
                      <<cum[1][i], cum[2][i]>> = post_parameters(Some(SubSeq(L, 1, i)), g)
               /\ <<cum[1][Len(L)], cum[2][Len(L)]>> = post_parameters(None, g)

C3_Witness ==
    /\ call.op = "make_cum_post_para"
    /\ call.args.group = "B"
    /\ prior = <<Third, Third>>
    /\ Len(dataB) = 3
    /\ ret[1][1][3] # ret[1][1][2]


\* n * x, exactly
RECURSIVE Times(_, _)
Times(n, x) ==
    IF n = 0 THEN Zero
    ELSE LET h == Times(n \div 2, x)
         IN  IF n % 2 = 1 THEN FixAdd(FixAdd(h, h), x) ELSE FixAdd(h, h)

\* x is the binary64 nearest to 1/n: n * x is within n half units in the last
\* place of x of 1
NearestToInverse(n, x) ==
    /\ Round53(x) = x
    /\ LET d == FixAdd(Times(n, x), PyInt(-1))
       IN  d.i = 0 /\ d.hi = 0 /\ 2 * d.lo <= n * 2^(62 - KeptBits(x))

\* the pseudo-count of each preset
Preset(prior_type, x) ==
    CASE prior_type = "Bayes-Laplace" -> x = PyInt(1)
      [] prior_type = "Jeffreys"      -> NearestToInverse(2, x)
      [] prior_type = "Neutral"       -> NearestToInverse(3, x)
      [] prior_type = "Haldane"       -> NearestToInverse(1000, x)

Tags(df) == {df[k].group : k \in DOMAIN df}

\* C6: add_data with a table in which tag 'A' or tag 'B' does not appear raises
\* a validation error (ValueError), and neither ledger nor self.data is changed
\* by that call: no row of the group that is there is taken in.
C6_MissingGroupRejected ==
    [][\A df \in Tables :
          (/\ call'.op = "add_data"
           /\ call'.args.df = df
           /\ ~({"A", "B"} \subseteq Tags(df)))
          => (/\ raised' = "ValueError"
              /\ dataA' = dataA
              /\ dataB' = dataB
              /\ data' = data)
      ]_vars

\* a table with rows of group A alone has been refused
C6_Witness ==
    /\ call.op = "add_data"
    /\ Tags(call.args.df) = {"A"}
    /\ raised = "ValueError"
    /\ Len(dataA) = 1

\* C7: in every state the constructed object reaches by add_data, add_experiment
\* and add_rand_experiment calls, those that raise included, each ledger has a
\* length of 1 at least and the prior chosen at construction as its first entry.
C7_SeedStays ==
    pc = "ready" =>
        /\ \E t \in {"Bayes-Laplace", "Jeffreys", "Neutral", "Haldane"} :
               \A j \in 1..2 : Preset(t, prior[j])
        /\ \A L \in {dataA, dataB} : Len(L) >= 1 /\ L[1] = prior

\* both ledgers have grown and a call has raised since
C7_Witness ==
    /\ pc = "ready"
    /\ Len(dataA) >= 2
    /\ Len(dataB) >= 2
    /\ raised = "ValueError"

\* C8: the ledgers are append-only: over every call the ledger before it is a
\* prefix of the ledger after it.
C8_AppendOnly ==
    [][IsPrefix(dataA, dataA') /\ IsPrefix(dataB, dataB')]_vars

\* a ledger of three entries has been read
C8_Witness ==
    /\ Len(dataB) = 3
    /\ call.op \in AnalysisMethods
    /\ raised = "none"

\* the rows of a table tagged g, in table order
Tagged(df, g) ==
    LET picked == SelectSeq(df, LAMBDA r : r.group = g)
    IN  [k \in 1..Len(picked) |-> Batch(picked[k].hits, picked[k].fails)]

ReadOps ==
    {"post_parameters", "post_pred", "make_cum_post_para", "make_rvs", "make_pdf",
     "make_diff"} \cup AnalysisMethods

\* C10: add_experiment(group=g) and add_rand_experiment(n, p, group=g) leave the
\* other group's ledger as it is, add_rand_experiment appending one batch
\* (k, n - k) with 0 <= k <= n to g's ledger; add_data appends the rows tagged
\* 'A' to ledger A alone and the rows tagged 'B' to ledger B alone, each in table
\* order; the calls that read change neither ledger.
C10_OwnGroupOnly ==
    [][/\ \A g \in Groups :
            (call'.op = "add_experiment" /\ call'.args.group = g)
            => /\ Ledger(Other(g))' = Ledger(Other(g))
               /\ IsPrefix(Ledger(g), Ledger(g)')
               /\ Len(Ledger(g)') <= Len(Ledger(g)) + 1
       /\ \A g \in Groups, n \in Trials :
            (/\ call'.op = "add_rand_experiment"
             /\ call'.args.group = g
             /\ call'.args.n = n)
            => /\ Ledger(Other(g))' = Ledger(Other(g))
               /\ IF raised' = "none"
                  THEN \E k \in 0..n : Ledger(g)' = Append(Ledger(g), Batch(k, n - k))
                  ELSE Ledger(g)' = Ledger(g)
       /\ \A df \in Tables :
            (call'.op = "add_data" /\ call'.args.df = df /\ raised' = "none")
            => /\ dataA' = dataA \o Tagged(df, "A")
               /\ dataB' = dataB \o Tagged(df, "B")
       /\ call'.op \in ReadOps => (dataA' = dataA /\ dataB' = dataB)
      ]_vars

\* add_rand_experiment has appended to ledger B next to a ledger A that holds a
\* batch
C10_Witness ==
    /\ call.op = "add_rand_experiment"
    /\ call.args.group = "B"
    /\ raised = "none"
    /\ Len(dataB) = 2
    /\ Len(dataA) = 2

====
